---- MODULE Spec2Model ----
(***************************************************************************)
(* Model of labeler/conllu.py: the CoNLL-U reader (Dataset._read_word,     *)
(* Dataset.gen_sentences), the graph builder (Dataset.gen_graphs), the     *)
(* formatter (Dataset.format_word, Dataset.format_sentence,                *)
(* Dataset.write_sentences) and the graph serializer                       *)
(* (Dataset.write_graphs).                                                 *)
(*                                                                         *)
(* Text is modelled at the level of characters: a Python str is a sequence *)
(* of one-character strings. A Python value that may be an int or a str    *)
(* (Word.ID, Word.HEAD, doc_id, sent_id, a node key) is tagged with its    *)
(* type, since the code branches on it (type(word.ID) is int, key == 0).   *)
(***************************************************************************)
EXTENDS Integers, Sequences, FiniteSets, TLC

VARIABLES
    file,               \* the lines of the file at file_path (line ends removed)
    include_multiwords, \* gen_sentences' keyword argument
    pc,                 \* where the running call is
    line_num,           \* gen_sentences: index of the next line of enumerate(f)
    sent,               \* gen_sentences: the buffered words
    doc_id,             \* gen_sentences: local doc_id
    sent_id,            \* gen_sentences: local sent_id
    sentence_counter,   \* gen_sentences: local sentence_counter
    yielded,            \* what gen_sentences has yielded so far, in order
    error,              \* the exception that ended the call, or NoError
    edgeless,           \* gen_graphs' keyword argument
    graphs,             \* what gen_graphs has yielded so far, in order
    nx_version,         \* major version of the installed networkx
    w_graphs,           \* write_graphs: its argument
    w_g,                \* write_graphs: index of the graph being serialized
    w_n,                \* write_graphs: index of the next node of graph.nodes()
    w_a,                \* write_graphs: index of the next item of graph.graph
    sentence,           \* write_graphs: local sentence
    sentences,          \* write_graphs / write_sentences: the sentences to write
    source              \* the sentences a round trip started from

vars == <<file, include_multiwords, pc, line_num, sent, doc_id, sent_id,
          sentence_counter, yielded, error, edgeless, graphs, nx_version,
          w_graphs, w_g, w_n, w_a, sentence, sentences, source>>

readerVars == <<line_num, sent, doc_id, sent_id, sentence_counter, yielded>>
writerVars == <<w_graphs, w_g, w_n, w_a, sentence, sentences>>

-----------------------------------------------------------------------------
(* Bounds of the model *)

\* longest file the reader specification reads, in lines
MaxLines == 3
\* longest file the graph-builder and round-trip specifications read, in lines
MaxRows == 4
\* longest sentence whose graph the serializer specification is given
MaxWords == 3
\* largest token id of the graphs a caller builds by hand
MaxNode == 2

-----------------------------------------------------------------------------
(* Python values *)

PyInt(n) == [t |-> "int", v |-> n]
PyStr(s) == [t |-> "str", v |-> s]
IsInt(x) == x.t = "int"

Digits == <<"0", "1", "2", "3", "4", "5", "6", "7", "8", "9">>
DigitSet == {Digits[i] : i \in 1..10}
DigitVal(c) == (CHOOSE i \in 1..10 : Digits[i] = c) - 1

\* str.isdigit(), over the model's alphabet
IsDigitStr(s) == Len(s) > 0 /\ \A i \in 1..Len(s) : s[i] \in DigitSet

\* whitespace as str.strip() and int() see it
IsSpace(c) == c \in {" ", "\t", "\n", "\r"}

\* code point of a character: the order sorted() puts strings in
Ord(c) ==
    CASE c = "\t" -> 9  [] c = "\n" -> 10 [] c = "\r" -> 13 [] c = " " -> 32
      [] c = "#" -> 35  [] c = "+" -> 43  [] c = "," -> 44  [] c = "-" -> 45
      [] c = "." -> 46  [] c \in DigitSet -> 48 + DigitVal(c)
      [] c = "=" -> 61  [] c = "N" -> 78  [] c = "V" -> 86  [] c = "X" -> 88
      [] c = "_" -> 95  [] c = "a" -> 97  [] c = "b" -> 98  [] c = "c" -> 99
      [] c = "d" -> 100 [] c = "r" -> 114 [] c = "s" -> 115 [] c = "|" -> 124

RECURSIVE StrLess(_, _)
\* s < t for Python strings
StrLess(s, t) ==
    IF t = <<>> THEN FALSE
    ELSE IF s = <<>> THEN TRUE
    ELSE IF s[1] # t[1] THEN Ord(s[1]) < Ord(t[1])
    ELSE StrLess(Tail(s), Tail(t))

RECURSIVE Sorted(_)
\* sorted(S) for a set of strings
Sorted(S) ==
    IF S = {} THEN <<>>
    ELSE LET m == CHOOSE x \in S : \A y \in S \ {x} : StrLess(x, y)
         IN  <<m>> \o Sorted(S \ {m})

RECURSIVE Strip(_)
RECURSIVE RStrip(_)
RStrip(s) ==
    IF s # <<>> /\ IsSpace(s[Len(s)]) THEN RStrip(SubSeq(s, 1, Len(s) - 1)) ELSE s
\* str.strip()
Strip(s) == IF s # <<>> /\ IsSpace(s[1]) THEN Strip(Tail(s)) ELSE RStrip(s)

RECURSIVE SplitFrom(_, _, _)
SplitFrom(s, sep, cur) ==
    IF s = <<>> THEN <<cur>>
    ELSE IF s[1] = sep THEN <<cur>> \o SplitFrom(Tail(s), sep, <<>>)
    ELSE SplitFrom(Tail(s), sep, Append(cur, s[1]))
\* str.split(sep) for a one-character separator
Split(s, sep) == SplitFrom(s, sep, <<>>)

RECURSIVE Join(_, _)
\* sep.join(parts)
Join(parts, sep) ==
    IF parts = <<>> THEN <<>>
    ELSE IF Len(parts) = 1 THEN parts[1]
    ELSE parts[1] \o sep \o Join(Tail(parts), sep)

\* str.startswith(p)
StartsWith(s, p) == Len(s) >= Len(p) /\ SubSeq(s, 1, Len(p)) = p

\* the positions at which p occurs in s
Occurrences(s, p) ==
    {i \in 1..(Len(s) - Len(p) + 1) : SubSeq(s, i, i + Len(p) - 1) = p}
\* p in s
Contains(s, p) == Occurrences(s, p) # {}
\* s.partition(p)[-1], when p is in s
PartitionTail(s, p) ==
    LET i == CHOOSE k \in Occurrences(s, p) : \A j \in Occurrences(s, p) : k <= j
    IN  SubSeq(s, i + Len(p), Len(s))

RECURSIVE DigitsValue(_, _)
DigitsValue(s, acc) ==
    IF s = <<>> THEN acc ELSE DigitsValue(Tail(s), 10 * acc + DigitVal(s[1]))

Raise(kind) == [ok |-> FALSE, exc |-> kind]
Return(value) == [ok |-> TRUE, value |-> value]

\* int(s): surrounding whitespace and one sign are accepted
ParseInt(s) ==
    LET u == Strip(s)
        signed == u # <<>> /\ u[1] \in {"+", "-"}
        body == IF signed THEN Tail(u) ELSE u
    IN  IF ~IsDigitStr(body) THEN Raise("ValueError")
        ELSE Return(IF signed /\ u[1] = "-" THEN 0 - DigitsValue(body, 0)
                    ELSE DigitsValue(body, 0))

RECURSIVE NatToStr(_)
NatToStr(n) ==
    IF n < 10 THEN <<Digits[n + 1]>>
    ELSE NatToStr(n \div 10) \o <<Digits[(n % 10) + 1]>>
\* str(x) for an int or a str
ToStr(x) ==
    IF IsInt(x) THEN (IF x.v < 0 THEN <<"-">> \o NatToStr(0 - x.v) ELSE NatToStr(x.v))
    ELSE x.v

-----------------------------------------------------------------------------
(* Dataset.__init__: the configuration the caller binds *)

file_path == "treebank.conllu"
doc_id_prefix == <<"d", "=">>
sent_id_prefix == <<"s", "=">>
POS_TAGS == {<<"N">>, <<"V">>}
Placeholder == <<"_">>

NoError == [type |-> "none"]
ConlluError(msg) == [type |-> "ConlluError", msg |-> msg]
\* an error message that counts lines from 1
CouldNotReadOneBased(n) ==
    ConlluError([text |-> "Could not read", path |-> file_path, line |-> n + 1])
\* 'Could not read {}:{}'.format(self.file_path, line_num)
CouldNotRead(n) ==
    ConlluError([text |-> "Could not read", path |-> file_path, line |-> n])

-----------------------------------------------------------------------------
(* Dataset._read_word *)

RECURSIVE ReadFeats(_, _)
\* the dict comprehension over line[5].split('|'): a later key replaces an
\* earlier one, an item that does not split into two at '=' cannot be unpacked
ReadFeats(items, acc) ==
    IF items = <<>> THEN Return(acc)
    ELSE LET kv == Split(items[1], "=")
         IN  IF Len(kv) # 2 THEN Raise("ValueError")
             ELSE LET value == Split(kv[2], ",")
                      vs == {value[i] : i \in 1..Len(value)}
                      rest == [k \in DOMAIN acc \ {kv[1]} |-> acc[k]]
                  IN  ReadFeats(Tail(items), (kv[1] :> vs) @@ rest)

\* the checks and conversions of the ID field
ReadId(f) ==
    IF IsDigitStr(f) THEN Return(PyInt(DigitsValue(f, 0)))
    ELSE IF \A i \in 1..Len(f) : f[i] \in DigitSet \cup {"-", "."}
         THEN Return(PyStr(f))
         ELSE Raise("AssertionError")

\* the conversion of the HEAD field
ReadHead(f) ==
    IF f = Placeholder THEN Return(PyStr(f))
    ELSE LET r == ParseInt(f)
         IN  IF r.ok THEN Return(PyInt(r.value)) ELSE r

\* _read_word(line), line a list of strings
_read_word(line) ==
    IF ~(Len(line) = 10 /\ \A i \in 1..Len(line) : line[i] # <<>>)
    THEN Raise("AssertionError")
    ELSE LET id == ReadId(line[1])
             feats == IF line[6] = Placeholder THEN Return(<<>>)
                      ELSE ReadFeats(Split(line[6], "|"), <<>>)
             head == ReadHead(line[7])
         IN  IF ~id.ok THEN id
             ELSE IF ~(line[4] \in POS_TAGS \/ line[4] = Placeholder)
                  THEN Raise("AssertionError")
             ELSE IF ~feats.ok THEN feats
             ELSE IF ~head.ok THEN head
             ELSE Return([ID |-> id.value, FORM |-> line[2], LEMMA_ |-> line[3],
                          UPOSTAG |-> line[4], XPOSTAG |-> line[5],
                          FEATS |-> feats.value, HEAD |-> head.value,
                          DEPREL |-> line[8], DEPS |-> line[9], MISC |-> line[10]])

-----------------------------------------------------------------------------
(* Dataset.gen_sentences: one step per line of the file *)

EmptyStr == PyStr(<<>>)

\* the line enumerate() hands to the loop body: x.strip()
CurrentLine == Strip(file[line_num + 1])

\* line.startswith('#'): the ids are updated, the line is skipped
CommentLine ==
    /\ pc = "reading"
    /\ line_num < Len(file)
    /\ StartsWith(CurrentLine, <<"#">>)
    /\ IF Contains(CurrentLine, doc_id_prefix)
       THEN /\ doc_id' = PyStr(PartitionTail(CurrentLine, doc_id_prefix))
            /\ UNCHANGED sent_id
       ELSE IF Contains(CurrentLine, sent_id_prefix)
       THEN /\ sent_id' = PyStr(PartitionTail(CurrentLine, sent_id_prefix))
            /\ UNCHANGED doc_id
       ELSE UNCHANGED <<doc_id, sent_id>>
    /\ line_num' = line_num + 1
    /\ UNCHANGED <<sent, sentence_counter, yielded, pc, error>>

\* a reader that buffers every record, whatever include_multiwords says
BufferedAlways(word) == Append(sent, word)
\* if include_multiwords or type(word.ID) is int: sent.append(word)
Buffered(word) ==
    IF include_multiwords \/ IsInt(word.ID) THEN Append(sent, word) ELSE sent

\* elif line: the line is parsed and buffered
WordLine ==
    /\ pc = "reading"
    /\ line_num < Len(file)
    /\ ~StartsWith(CurrentLine, <<"#">>)
    /\ CurrentLine # <<>>
    /\ LET word == _read_word(Split(CurrentLine, "\t"))
       IN  /\ word.ok
           /\ sent' = Buffered(word.value)
    /\ line_num' = line_num + 1
    /\ UNCHANGED <<doc_id, sent_id, sentence_counter, yielded, pc, error>>

\* _read_word raises AssertionError or ValueError: except clause of line 150
BadLine ==
    /\ pc = "reading"
    /\ line_num < Len(file)
    /\ ~StartsWith(CurrentLine, <<"#">>)
    /\ CurrentLine # <<>>
    /\ ~_read_word(Split(CurrentLine, "\t")).ok
    /\ error' = CouldNotRead(line_num)
    /\ pc' = "failed"
    /\ UNCHANGED <<readerVars>>

\* the name of the sentence a blank line closes
DocSentName(d, s) == ToStr(d) \o <<"_">> \o ToStr(s)

\* else: an empty line closes the sentence, which is yielded
BlankLine ==
    /\ pc = "reading"
    /\ line_num < Len(file)
    /\ CurrentLine = <<>>
    /\ LET d == IF doc_id = EmptyStr THEN PyInt(0) ELSE doc_id
           s == IF sent_id = EmptyStr THEN PyInt(sentence_counter) ELSE sent_id
       IN  /\ doc_id' = d
           /\ sent_id' = s
           /\ yielded' = Append(yielded, [name |-> DocSentName(d, s), sent |-> sent])
    /\ sentence_counter' = sentence_counter + 1
    /\ sent' = <<>>
    /\ line_num' = line_num + 1
    /\ UNCHANGED <<pc, error>>

\* the sentences yielded so far, without their names
YieldedSentences == [k \in 1..Len(yielded) |-> yielded[k].sent]

\* the file is exhausted: the generator returns
EndOfFile ==
    /\ pc = "reading"
    /\ line_num = Len(file)
    /\ pc' = "done"
    /\ UNCHANGED <<readerVars, error>>

-----------------------------------------------------------------------------
(* networkx.DiGraph, as far as the code uses it. Dicts keep insertion order: *)
(* nodes, edges and the graph attributes are sequences in that order.        *)

EmptyGraph == [nodes |-> <<>>, edges |-> <<>>, graph |-> <<>>]
NoData == <<>>

HasNode(g, key) == \E i \in 1..Len(g.nodes) : g.nodes[i].key = key
HasEdge(g, u, v) == \E i \in 1..Len(g.edges) : g.edges[i].u = u /\ g.edges[i].v = v

\* dict.update(): the attributes of new replace those of old
Updated(old, new) == new @@ old

\* DiGraph.add_node(key, **data)
AddNode(g, key, data) ==
    IF HasNode(g, key)
    THEN [g EXCEPT !.nodes = [i \in 1..Len(g.nodes) |->
              IF g.nodes[i].key = key
              THEN [key |-> key, data |-> Updated(g.nodes[i].data, data)]
              ELSE g.nodes[i]]]
    ELSE [g EXCEPT !.nodes = Append(g.nodes, [key |-> key, data |-> data])]

\* DiGraph.add_edge(u, v, **data): the end points become nodes when they are not
AddEdge(g, u, v, data) ==
    LET h == AddNode(AddNode(g, u, NoData), v, NoData)
    IN  IF HasEdge(h, u, v)
        THEN [h EXCEPT !.edges = [i \in 1..Len(h.edges) |->
                  IF h.edges[i].u = u /\ h.edges[i].v = v
                  THEN [u |-> u, v |-> v, data |-> Updated(h.edges[i].data, data)]
                  ELSE h.edges[i]]]
        ELSE [h EXCEPT !.edges = Append(h.edges, [u |-> u, v |-> v, data |-> data])]

\* graph.graph[key] = value
SetGraphAttr(g, key, value) ==
    IF \E i \in 1..Len(g.graph) : g.graph[i].key = key
    THEN [g EXCEPT !.graph = [i \in 1..Len(g.graph) |->
              IF g.graph[i].key = key THEN [key |-> key, value |-> value]
              ELSE g.graph[i]]]
    ELSE [g EXCEPT !.graph = Append(g.graph, [key |-> key, value |-> value])]

\* DiGraph.in_edges(key, data=True) as a list, in the order the edges were added
InEdges(g, key) == SelectSeq(g.edges, LAMBDA e : e.v = key)

-----------------------------------------------------------------------------
(* Dataset.gen_graphs *)

node_labels_type == "FORM"
NBSP == "nbsp"

\* the label the node of a word gets
NodeLabel(word) ==
    CASE node_labels_type = "FORM" -> word.FORM
      [] node_labels_type = "LEMMA" -> word.LEMMA_
      [] node_labels_type = "POS" -> word.UPOSTAG

\* a builder that turns every record into a node, multiword rows too
AddWordAsNode(g, word) ==
    LET n == AddNode(g, PyStr(ToStr(word.ID)), [label |-> NodeLabel(word)])
    IN  IF ~edgeless /\ word.HEAD # PyStr(Placeholder)
        THEN AddEdge(n, PyStr(ToStr(word.HEAD)), PyStr(ToStr(word.ID)),
                     [label |-> word.DEPREL])
        ELSE n
\* the body of the loop over the words of a sentence
AddWord(g, word) ==
    IF IsInt(word.ID)
    THEN LET n == AddNode(g, PyStr(ToStr(word.ID)), [label |-> NodeLabel(word)])
         IN  IF ~edgeless /\ word.HEAD # PyStr(Placeholder)
             THEN AddEdge(n, PyStr(ToStr(word.HEAD)), PyStr(ToStr(word.ID)),
                          [label |-> word.DEPREL])
             ELSE n
    ELSE SetGraphAttr(g, ToStr(word.ID), PyStr(ToStr(word.ID)))

RECURSIVE AddWords(_, _)
AddWords(g, words) ==
    IF words = <<>> THEN g ELSE AddWords(AddWord(g, words[1]), Tail(words))

\* the graph gen_graphs yields for a sentence
BuildGraph(words) ==
    AddWords(AddNode(EmptyGraph, PyStr(<<"0">>), [label |-> <<NBSP>>]), words)

-----------------------------------------------------------------------------
(* Dataset.format_word, Dataset.format_sentence *)

\* isinstance(x, Word): the other things a sentence can hold are plain values
IsWord(x) == "ID" \in DOMAIN x

\* '{}={}'.format(key, ','.join(sorted(value))) for the sorted keys
FeatItems(feats) ==
    LET keys == Sorted(DOMAIN feats)
    IN  [i \in 1..Len(keys) |->
            keys[i] \o <<"=">> \o Join(Sorted(feats[keys[i]]), <<",">>)]

\* a formatter that writes nothing for an empty FEATS
FormatFeatsNoPlaceholder(feats) == Join(FeatItems(feats), <<"|">>)
\* the FEATS column: '_' for an empty dict
FormatFeats(feats) ==
    IF feats # <<>> THEN Join(FeatItems(feats), <<"|">>) ELSE Placeholder

format_word(word) ==
    Join(<<ToStr(word.ID), word.FORM, word.LEMMA_, word.UPOSTAG, word.XPOSTAG,
           FormatFeats(word.FEATS), ToStr(word.HEAD), word.DEPREL, word.DEPS,
           word.MISC>>, <<"\t">>)

format_sentence(s) ==
    Join([i \in 1..Len(s) |-> format_word(s[i])] \o <<<<>>, <<>>>>, <<"\n">>)

\* the lines a file holding text gives to a loop over it, line ends removed
FileLines(text) ==
    LET parts == Split(text, "\n")
    IN  IF parts[Len(parts)] = <<>> THEN SubSeq(parts, 1, Len(parts) - 1) ELSE parts

-----------------------------------------------------------------------------
(* Dataset.write_sentences: open, one step per sentence, close.             *)
(* w_g counts the sentences written.                                        *)

\* open(self.file_path, 'w') truncates the file
WriteOpen ==
    /\ pc = "opening"
    /\ file' = <<>>
    /\ w_g' = 0
    /\ pc' = "writing"
    /\ UNCHANGED <<w_graphs, w_n, w_a, sentence, sentences, error>>

\* assert all isinstance(word, Word), then f.write(format_sentence(sentence))
WriteSentence ==
    /\ pc = "writing"
    /\ w_g < Len(sentences)
    /\ \A i \in 1..Len(sentences[w_g + 1]) : IsWord(sentences[w_g + 1][i])
    /\ file' = file \o FileLines(format_sentence(sentences[w_g + 1]))
    /\ w_g' = w_g + 1
    /\ UNCHANGED <<w_graphs, w_n, w_a, sentence, sentences, pc, error>>

\* the assertion fails: except AssertionError of line 252
WriteSentenceFails ==
    /\ pc = "writing"
    /\ w_g < Len(sentences)
    /\ \E i \in 1..Len(sentences[w_g + 1]) : ~IsWord(sentences[w_g + 1][i])
    /\ error' = ConlluError("Sentences must be sequences of Word tuples")
    /\ pc' = "failed"
    /\ UNCHANGED <<file, writerVars>>

\* the loop ends and the file is closed
WriteClose ==
    /\ pc = "writing"
    /\ w_g = Len(sentences)
    /\ pc' = "written"
    /\ UNCHANGED <<file, writerVars, error>>

-----------------------------------------------------------------------------
(* Dataset.write_graphs: one step per node, one per graph attribute.        *)
(* w_g counts the graphs done, w_n the nodes done, w_a the attributes done. *)

CurrentGraph == w_graphs[w_g + 1]
NotConform == ConlluError("Graphs do not conform to the spec")
Uncaught(kind) == [type |-> kind]
DataOr(data, key) == IF key \in DOMAIN data THEN data[key] ELSE Placeholder

\* the body of the loop over graph.nodes(data=True), past the test for the root:
\* the error it raises, or the Word it appends
SerializeNode(g, node) ==
    LET in == InEdges(g, node.key)
        data == node.data
    IN  IF nx_version >= 2 THEN Raise(Uncaught("TypeError"))
        ELSE IF in = <<>> THEN Raise(Uncaught("IndexError"))
        ELSE IF ~({"FORM", "LEMMA", "UPOSTAG"} \subseteq DOMAIN data)
             THEN Raise(NotConform)
        ELSE IF "FEATS" \notin DOMAIN data THEN Raise(Uncaught("KeyError"))
        ELSE Return([ID |-> node.key, FORM |-> data["FORM"],
                     LEMMA_ |-> data["LEMMA"], UPOSTAG |-> data["UPOSTAG"],
                     XPOSTAG |-> DataOr(data, "XPOSTAG"), FEATS |-> data["FEATS"],
                     HEAD |-> in[1].u, DEPREL |-> DataOr(in[1].data, "DEPREL"),
                     DEPS |-> DataOr(data, "DEPS"), MISC |-> DataOr(data, "MISC")])

\* if key == 0: continue
IsRootKey(key) == key = PyInt(0)

SkipRoot ==
    /\ pc = "serializing"
    /\ w_g < Len(w_graphs)
    /\ w_n < Len(CurrentGraph.nodes)
    /\ IsRootKey(CurrentGraph.nodes[w_n + 1].key)
    /\ w_n' = w_n + 1
    /\ UNCHANGED <<file, w_graphs, w_g, w_a, sentence, sentences, pc, error>>

AppendNode ==
    /\ pc = "serializing"
    /\ w_g < Len(w_graphs)
    /\ w_n < Len(CurrentGraph.nodes)
    /\ ~IsRootKey(CurrentGraph.nodes[w_n + 1].key)
    /\ LET r == SerializeNode(CurrentGraph, CurrentGraph.nodes[w_n + 1])
       IN  /\ r.ok
           /\ sentence' = Append(sentence, r.value)
    /\ w_n' = w_n + 1
    /\ UNCHANGED <<file, w_graphs, w_g, w_a, sentences, pc, error>>

NodeFails ==
    /\ pc = "serializing"
    /\ w_g < Len(w_graphs)
    /\ w_n < Len(CurrentGraph.nodes)
    /\ ~IsRootKey(CurrentGraph.nodes[w_n + 1].key)
    /\ LET r == SerializeNode(CurrentGraph, CurrentGraph.nodes[w_n + 1])
       IN  /\ ~r.ok
           /\ error' = r.exc
    /\ pc' = "failed"
    /\ UNCHANGED <<file, writerVars>>

\* the loop over the nodes ends
NodesDone ==
    /\ pc = "serializing"
    /\ w_g < Len(w_graphs)
    /\ w_n = Len(CurrentGraph.nodes)
    /\ w_a' = 0
    /\ pc' = "splicing"
    /\ UNCHANGED <<file, w_graphs, w_g, w_n, sentence, sentences, error>>

\* the body of the loop over graph.graph.items(): the error it raises, or the
\* sentence with the value inserted. next() evaluates w.ID on the items of
\* the sentence in order, up to the first whose ID equals the key.
SpliceItem(sen, item) ==
    LET k == ParseInt(Split(item.key, "-")[1])
        hits == {i \in 1..Len(sen) : IsWord(sen[i]) /\ sen[i].ID = PyInt(k.value)}
        others == {i \in 1..Len(sen) : ~IsWord(sen[i])}
        first(S) == CHOOSE i \in S : \A j \in S : i <= j
    IN  IF ~k.ok THEN Raise(NotConform)
        ELSE IF others # {} /\ (hits = {} \/ first(others) < first(hits))
             THEN Raise(Uncaught("AttributeError"))
        ELSE IF hits = {} THEN Raise(NotConform)
        ELSE Return(SubSeq(sen, 1, first(hits) - 1) \o <<item.value>>
                    \o SubSeq(sen, first(hits), Len(sen)))

Splice ==
    /\ pc = "splicing"
    /\ w_a < Len(CurrentGraph.graph)
    /\ LET r == SpliceItem(sentence, CurrentGraph.graph[w_a + 1])
       IN  /\ r.ok
           /\ sentence' = r.value
    /\ w_a' = w_a + 1
    /\ UNCHANGED <<file, w_graphs, w_g, w_n, sentences, pc, error>>

SpliceFails ==
    /\ pc = "splicing"
    /\ w_a < Len(CurrentGraph.graph)
    /\ LET r == SpliceItem(sentence, CurrentGraph.graph[w_a + 1])
       IN  /\ ~r.ok
           /\ error' = r.exc
    /\ pc' = "failed"
    /\ UNCHANGED <<file, writerVars>>

\* sentences.append(sentence), and on to the next graph
GraphDone ==
    /\ pc = "splicing"
    /\ w_a = Len(CurrentGraph.graph)
    /\ sentences' = Append(sentences, sentence)
    /\ sentence' = <<>>
    /\ w_g' = w_g + 1
    /\ w_n' = 0
    /\ pc' = "serializing"
    /\ UNCHANGED <<file, w_graphs, w_a, error>>

\* self.write_sentences(sentences)
GraphsDone ==
    /\ pc = "serializing"
    /\ w_g = Len(w_graphs)
    /\ pc' = "opening"
    /\ UNCHANGED <<file, writerVars, error>>

-----------------------------------------------------------------------------
(* The reader specification: gen_sentences over every file of at most       *)
(* MaxLines lines drawn from ReadLines                                      *)

TAB == <<"\t">>
Row(fields) == Join(fields, TAB)
U == Placeholder

\* the token row "1 a a N _ _ 0 r _ _"
TokenRow == Row(<<<<"1">>, <<"a">>, <<"a">>, <<"N">>, U, U, <<"0">>, <<"r">>, U, U>>)
\* the same kind of row with FEATS, surrounded by whitespace
PaddedRow ==
    <<" ">> \o Row(<<<<"2">>, <<"b">>, <<"b">>, <<"V">>, U, <<"c", "=", "a">>,
                     <<"1">>, <<"r">>, U, U>>) \o <<" ">>
\* the multiword row "1-2 a _ _ _ _ _ _ _ _"
MultiwordRow == Row(<<<<"1", "-", "2">>, <<"a">>, U, U, U, U, U, U, U, U>>)
\* nine fields
ShortRow == Row(<<<<"1">>, <<"a">>, <<"a">>, <<"N">>, U, U, <<"0">>, <<"r">>, U>>)
\* ten fields, the last one empty: str.strip() leaves nine
EmptyFieldRow == Row(<<<<"1">>, <<"a">>, <<"a">>, <<"N">>, U, U, <<"0">>, <<"r">>, U, <<>>>>)
\* UPOSTAG outside the tag set
BadTagRow == Row(<<<<"1">>, <<"a">>, <<"a">>, <<"X">>, U, U, <<"0">>, <<"r">>, U, U>>)
\* FEATS without "="
BadFeatsRow == Row(<<<<"1">>, <<"a">>, <<"a">>, <<"N">>, U, <<"c">>, <<"0">>, <<"r">>, U, U>>)
\* ID with a character that is no digit, "-" or "."
BadIdRow == Row(<<<<"a">>, <<"a">>, <<"a">>, <<"N">>, U, U, <<"0">>, <<"r">>, U, U>>)
\* HEAD that is no integer
BadHeadRow == Row(<<<<"1">>, <<"a">>, <<"a">>, <<"N">>, U, U, <<"a">>, <<"r">>, U, U>>)
\* "#d=a", "#s=b": the document-id and sentence-id comments
DocIdComment == <<"#">> \o doc_id_prefix \o <<"a">>
SentIdComment == <<"#">> \o sent_id_prefix \o <<"b">>

ReadLines == {<<>>, <<" ">>, DocIdComment, SentIdComment, TokenRow, PaddedRow,
              MultiwordRow, ShortRow, EmptyFieldRow, BadTagRow, BadFeatsRow,
              BadIdRow, BadHeadRow}

Files(lines, n) == UNION {[1..k -> lines] : k \in 0..n}

\* where the sentences or graphs being written came from
NoSource == [origin |-> "none", value |-> <<>>]
From(origin, value) == [origin |-> origin, value |-> value]

ReaderStart ==
    /\ pc = "reading"
    /\ line_num = 0
    /\ sent = <<>>
    /\ doc_id = EmptyStr
    /\ sent_id = EmptyStr
    /\ sentence_counter = 0
    /\ yielded = <<>>
    /\ error = NoError

WriterIdle ==
    /\ w_graphs = <<>>
    /\ w_g = 0
    /\ w_n = 0
    /\ w_a = 0
    /\ sentence = <<>>
    /\ sentences = <<>>

InitRead ==
    /\ file \in Files(ReadLines, MaxLines)
    /\ include_multiwords \in BOOLEAN
    /\ ReaderStart
    /\ edgeless = FALSE
    /\ graphs = <<>>
    /\ nx_version = 1
    /\ WriterIdle
    /\ source = NoSource

ReadFrame ==
    UNCHANGED <<file, include_multiwords, edgeless, graphs, nx_version,
                writerVars, source>>

ReadComment == CommentLine /\ ReadFrame
ReadWord == WordLine /\ ReadFrame
ReadBad == BadLine /\ ReadFrame
ReadBlank == BlankLine /\ ReadFrame
ReadEnd == EndOfFile /\ ReadFrame

NextRead == ReadComment \/ ReadWord \/ ReadBad \/ ReadBlank \/ ReadEnd

SpecRead == InitRead /\ [][NextRead]_vars

-----------------------------------------------------------------------------
(* The graph-builder specification: gen_graphs over every file of at most   *)
(* MaxRows lines drawn from GraphLines                                      *)

\* the token row "<id> a a N _ _ <head> <deprel> _ _"
DepRow(id, head, deprel) ==
    Row(<<id, <<"a">>, <<"a">>, <<"N">>, U, U, head, deprel, U, U>>)

GraphRows == {DepRow(<<"1">>, <<"0">>, <<"r">>), DepRow(<<"1">>, <<"2">>, <<"d">>),
              DepRow(<<"2">>, <<"0">>, <<"r">>), DepRow(<<"2">>, <<"1">>, <<"d">>),
              MultiwordRow}
GraphLines == GraphRows \cup {<<>>, DocIdComment, BadTagRow}

InitGraph ==
    /\ file \in Files(GraphLines, MaxRows)
    /\ include_multiwords = TRUE
    /\ ReaderStart
    /\ edgeless \in BOOLEAN
    /\ graphs = <<>>
    /\ nx_version = 1
    /\ WriterIdle
    /\ source = NoSource

GraphFrame ==
    UNCHANGED <<file, include_multiwords, edgeless, nx_version, writerVars, source>>

\* gen_graphs pulls from gen_sentences(include_multiwords=True); a sentence
\* that gen_sentences yields is turned into a graph and yielded with its name
GraphComment == CommentLine /\ UNCHANGED graphs /\ GraphFrame
GraphWord == WordLine /\ UNCHANGED graphs /\ GraphFrame
GraphBad == BadLine /\ UNCHANGED graphs /\ GraphFrame
GraphBlank ==
    /\ BlankLine
    /\ graphs' = Append(graphs, [name |-> yielded'[Len(yielded')].name,
                                 graph |-> BuildGraph(sent)])
    /\ GraphFrame
GraphEnd == EndOfFile /\ UNCHANGED graphs /\ GraphFrame

NextGraph == GraphComment \/ GraphWord \/ GraphBad \/ GraphBlank \/ GraphEnd

SpecGraph == InitGraph /\ [][NextGraph]_vars

-----------------------------------------------------------------------------
(* The text round-trip specification: gen_sentences(include_multiwords=True) *)
(* over a file, write_sentences of what it yielded, gen_sentences again      *)

\* "01 a a N _ b=c,a|a=b +1 r _ _": leading zero, unsorted FEATS, signed HEAD
ZeroPaddedRow ==
    Row(<<<<"0", "1">>, <<"a">>, <<"a">>, <<"N">>, U,
          <<"b", "=", "c", ",", "a", "|", "a", "=", "b">>, <<"+", "1">>, <<"r">>, U, U>>)
\* "1.1 b b V _ a=b|a=c -1 r _ _": empty node, a FEATS key given twice
EmptyNodeRow ==
    Row(<<<<"1", ".", "1">>, <<"b">>, <<"b">>, <<"V">>, U,
          <<"a", "=", "b", "|", "a", "=", "c">>, <<"-", "1">>, <<"r">>, U, U>>)
\* "2 b b V _ c= 0 r _ a b": a FEATS value that is empty, a MISC with a space
EmptyValueRow ==
    Row(<<<<"2">>, <<"b">>, <<"b">>, <<"V">>, U, <<"c", "=">>, <<"0">>, <<"r">>, U,
          <<"a", " ", "b">>>>)

RoundTripLines == {<<>>, ZeroPaddedRow, EmptyNodeRow, EmptyValueRow, PaddedRow,
                   MultiwordRow, SentIdComment, BadFeatsRow}

InitText ==
    /\ file \in Files(RoundTripLines, MaxRows)
    /\ include_multiwords = TRUE
    /\ ReaderStart
    /\ edgeless = FALSE
    /\ graphs = <<>>
    /\ nx_version = 1
    /\ WriterIdle
    /\ source = NoSource

WriteFrame ==
    UNCHANGED <<include_multiwords, readerVars, edgeless, graphs, nx_version, source>>

\* the caller hands what gen_sentences yielded to write_sentences
CallWriteSentences ==
    /\ pc = "done"
    /\ source = NoSource
    /\ source' = From("gen_sentences", YieldedSentences)
    /\ sentences' = YieldedSentences
    /\ pc' = "opening"
    /\ UNCHANGED <<file, include_multiwords, readerVars, error, edgeless, graphs,
                   nx_version, w_graphs, w_g, w_n, w_a, sentence>>

\* the caller reads the written file back
CallGenSentences ==
    /\ pc = "written"
    /\ pc' = "reading"
    /\ line_num' = 0
    /\ sent' = <<>>
    /\ doc_id' = EmptyStr
    /\ sent_id' = EmptyStr
    /\ sentence_counter' = 0
    /\ yielded' = <<>>
    /\ UNCHANGED <<file, include_multiwords, error, edgeless, graphs, nx_version,
                   writerVars, source>>

FileOpen == WriteOpen /\ WriteFrame
FileSentence == WriteSentence /\ WriteFrame
FileSentenceFails == WriteSentenceFails /\ WriteFrame
FileClose == WriteClose /\ WriteFrame

NextText ==
    \/ ReadComment \/ ReadWord \/ ReadBad \/ ReadBlank \/ ReadEnd
    \/ CallWriteSentences \/ FileOpen \/ FileSentence \/ FileClose
    \/ CallGenSentences

SpecText == InitText /\ [][NextText]_vars

-----------------------------------------------------------------------------
(* What the reader's claims speak of: the lines of the file, by kind *)

IsBlankLine(l) == Strip(l) = <<>>
IsCommentLine(l) == StartsWith(Strip(l), <<"#">>)
IsDocIdComment(l) == IsCommentLine(l) /\ Contains(Strip(l), doc_id_prefix)
IsSentIdComment(l) ==
    IsCommentLine(l) /\ ~IsDocIdComment(l) /\ Contains(Strip(l), sent_id_prefix)
IsRow(l) == ~IsBlankLine(l) /\ ~IsCommentLine(l)

Count(s, c) == Cardinality({i \in 1..Len(s) : s[i] = c})
Min(S) == CHOOSE x \in S : \A y \in S : x <= y

\* the CoNLL-U format of a row, stated on its tab-separated fields
WellFormedId(f) ==
    /\ f # <<>>
    /\ \A i \in 1..Len(f) : f[i] \in DigitSet \cup {"-", "."}
WellFormedFeats(f) ==
    \/ f = Placeholder
    \/ LET items == Split(f, "|")
       IN  \A i \in 1..Len(items) : Count(items[i], "=") = 1
WellFormedHead(f) ==
    \/ f = Placeholder
    \/ LET u == Strip(f)
           d == IF u # <<>> /\ u[1] \in {"+", "-"} THEN Tail(u) ELSE u
       IN  d # <<>> /\ \A i \in 1..Len(d) : d[i] \in DigitSet
WellFormedRow(l) ==
    LET f == Split(Strip(l), "\t")
    IN  /\ Len(f) = 10
        /\ \A i \in 1..10 : f[i] # <<>>
        /\ WellFormedId(f[1])
        /\ f[4] \in POS_TAGS \cup {Placeholder}
        /\ WellFormedFeats(f[6])
        /\ WellFormedHead(f[7])
Violates(l) == IsRow(l) /\ ~WellFormedRow(l)

\* the 1-based positions of the violating lines, and of the blank lines before n
ViolatingLines == {i \in 1..Len(file) : Violates(file[i])}
BlankLinesBefore(n) == {i \in 1..n : IsBlankLine(file[i])}

RECURSIVE RecordsOf(_, _)
\* the records of the rows among lines lo..hi that the caller asked for
RecordsOf(lo, hi) ==
    IF lo > hi THEN <<>>
    ELSE LET w == _read_word(Split(Strip(file[lo]), "\t"))
             keep == IsRow(file[lo]) /\ w.ok
                     /\ (include_multiwords \/ IsInt(w.value.ID))
         IN  (IF keep THEN <<w.value>> ELSE <<>>) \o RecordsOf(lo + 1, hi)

\* the sentences that the blank lines among the first n lines close
ClosedSentences(n) ==
    LET B == BlankLinesBefore(n)
        blank(k) == CHOOSE i \in B : Cardinality({j \in B : j <= i}) = k
        start(k) == IF k = 1 THEN 1 ELSE blank(k - 1) + 1
    IN  [k \in 1..Cardinality(B) |-> RecordsOf(start(k), blank(k) - 1)]

\* the lines of the sentence that the k-th blank line closes
SegmentOf(k) ==
    LET B == BlankLinesBefore(Len(file))
        blank(j) == CHOOSE i \in B : Cardinality({h \in B : h <= i}) = j
    IN  (IF k = 1 THEN 1 ELSE blank(k - 1) + 1)..blank(k)

EndsWith(s, p) == Len(s) >= Len(p) /\ SubSeq(s, Len(s) - Len(p) + 1, Len(s)) = p

-----------------------------------------------------------------------------
(* Claims about the reader, under SpecRead *)

\* C1: when the file holds no document-id and no sentence-id comment, the
\* k-th sentence yielded is named "0_(k-1)": "0_0", "0_1", ...
C1_DefaultNames ==
    (\A i \in 1..Len(file) : ~IsDocIdComment(file[i]) /\ ~IsSentIdComment(file[i]))
    => \A k \in 1..Len(yielded) :
           yielded[k].name = <<"0", "_">> \o NatToStr(k - 1)

\* C7: the ids are reset after every yielded sentence: a sentence that has
\* no document-id comment of its own, and follows one that had, is named
\* after the default document 0; a sentence that has no sentence-id comment
\* of its own, and follows one that had, is named after the running sentence
\* counter. Neither takes the id of the earlier sentence.
C7_IdsReset ==
    \A k \in 2..Len(yielded) :
        /\ ( /\ \E h \in 1..(k - 1) : \E i \in SegmentOf(h) : IsDocIdComment(file[i])
             /\ \A i \in SegmentOf(k) : ~IsDocIdComment(file[i]) )
           => StartsWith(yielded[k].name, <<"0", "_">>)
        /\ ( /\ \E h \in 1..(k - 1) : \E i \in SegmentOf(h) : IsSentIdComment(file[i])
             /\ \A i \in SegmentOf(k) : ~IsSentIdComment(file[i]) )
           => EndsWith(yielded[k].name, <<"_">> \o NatToStr(k - 1))

\* C5: if line n (0-based, every line counted) is the first line that violates
\* the format, the reader yields exactly the sentences closed by the blank
\* lines before line n and then fails with a ConlluError carrying the file
\* path and n; it never reads past line n and never ends normally.
C5_FirstViolation ==
    /\ ViolatingLines = {} => pc # "failed"
    /\ ViolatingLines # {} =>
         LET n == Min(ViolatingLines) - 1
         IN  /\ line_num <= n
             /\ pc # "done"
             /\ pc = "failed" =>
                  /\ error.type = "ConlluError"
                  /\ error.msg.path = file_path
                  /\ error.msg.line = n
                  /\ YieldedSentences = ClosedSentences(n)

\* C5's case: a row whose FEATS has no "=" fails on the third line, after a
\* sentence of one record was yielded
C5_Witness ==
    /\ pc = "failed"
    /\ file = <<TokenRow, <<>>, BadFeatsRow>>
    /\ error.msg.line = 2
    /\ Len(yielded) = 1

\* C10: on a format-valid file the reader yields one sentence per blank line
\* read so far, in file order, each holding the records buffered since the
\* previous blank line; at the end of the file the records after the last
\* blank line have not been yielded, and no error is raised.
C10_OneSentencePerBlankLine ==
    ViolatingLines = {} =>
        /\ pc \in {"reading", "done"}
        /\ error = NoError
        /\ YieldedSentences = ClosedSentences(line_num)
        /\ pc = "done" => line_num = Len(file)

\* C10's case: two blank lines in a row yield an empty sentence, and the
\* multiword row after the last blank line is dropped
C10_Witness ==
    /\ pc = "done"
    /\ include_multiwords
    /\ file = <<TokenRow, <<>>, MultiwordRow>>
    /\ YieldedSentences = <<<<_read_word(Split(TokenRow, "\t")).value>>>>

\* C10's other case: consecutive blank lines yield empty sentences
C10_WitnessEmpty ==
    /\ pc = "done"
    /\ file = <<PaddedRow, <<>>, <<" ">>>>
    /\ Len(yielded) = 2
    /\ yielded[2].sent = <<>>
    /\ Len(yielded[1].sent) = 1

-----------------------------------------------------------------------------
(* The serializer specification: write_graphs on one graph, which is either *)
(* the graph gen_graphs builds for a sentence of at most MaxWords records,  *)
(* or a graph the caller built as the docstring of gen_graphs describes:    *)
(* root 0, tokens 1..MaxNode, FORM, LEMMA, UPOSTAG and FEATS on the nodes,  *)
(* DEPREL on the edges, in any order of insertion                           *)

\* the sentences gen_graphs may be given
Sentences == UNION {[1..k -> {_read_word(Split(r, "\t")).value : r \in GraphRows}]
                    : k \in 0..MaxWords}

KeyOf(type, i) == IF type = "int" THEN PyInt(i) ELSE PyStr(NatToStr(i))

\* the attributes of a token node: all of them, or with one left out
TokenData(attrs) ==
    LET all == ("FORM" :> <<"a">>) @@ ("LEMMA" :> <<"a">>) @@ ("UPOSTAG" :> <<"N">>)
               @@ ("FEATS" :> <<>>)
    IN  CASE attrs = "full" -> all
          [] attrs = "no FORM" -> [k \in DOMAIN all \ {"FORM"} |-> all[k]]
          [] attrs = "no FEATS" -> [k \in DOMAIN all \ {"FEATS"} |-> all[k]]

\* the orders in which nodes 0..MaxNode can have been added
NodeOrders == {p \in [1..(MaxNode + 1) -> 0..MaxNode] :
                  \A i, j \in 1..(MaxNode + 1) : p[i] = p[j] => i = j}
\* the heads of a token, in the order their edges were added: none, one or two
HeadLists(v) ==
    LET C == (0..MaxNode) \ {v}
    IN  {<<>>} \cup {<<a>> : a \in C} \cup {p \in C \X C : p[1] # p[2]}
HeadChoices == {h \in [1..MaxNode -> UNION {HeadLists(v) : v \in 1..MaxNode}] :
                   \A v \in 1..MaxNode : h[v] \in HeadLists(v)}

RECURSIVE EdgesInto(_, _, _)
\* the edges into tokens v..MaxNode
EdgesInto(type, heads, v) ==
    IF v > MaxNode THEN <<>>
    ELSE [j \in 1..Len(heads[v]) |->
             [u |-> KeyOf(type, heads[v][j]), v |-> KeyOf(type, v),
              data |-> ("DEPREL" :> <<"d">>)]]
         \o EdgesInto(type, heads, v + 1)

\* the rows a caller may store as graph attributes
SpanRow(id) == _read_word(<<id, <<"a">>, U, U, U, U, U, U, U, U>>).value
Span12 == <<"1", "-", "2">>
Span23 == <<"2", "-", "3">>
SpanBeyond == NatToStr(MaxNode + 1) \o <<"-">> \o NatToStr(MaxNode + 2)
Attributes ==
    { <<>>,
      <<[key |-> Span12, value |-> SpanRow(Span12)]>>,
      <<[key |-> <<"1", ".", "1">>, value |-> SpanRow(<<"1", ".", "1">>)]>>,
      <<[key |-> SpanBeyond, value |-> SpanRow(SpanBeyond)]>>,
      <<[key |-> Span12, value |-> PyStr(Span12)]>>,
      <<[key |-> Span12, value |-> PyStr(Span12)],
        [key |-> Span23, value |-> PyStr(Span23)]>> }

HandBuilt(type, order, heads, attrs, attributes) ==
    [nodes |-> [j \in 1..Len(order) |->
                   [key |-> KeyOf(type, order[j]),
                    data |-> IF order[j] = 0 THEN [label |-> <<NBSP>>]
                             ELSE TokenData(attrs)]],
     edges |-> EdgesInto(type, heads, 1),
     graph |-> attributes]

InitWrite ==
    /\ file = <<>>
    /\ include_multiwords = TRUE
    /\ line_num = 0
    /\ sent = <<>>
    /\ doc_id = EmptyStr
    /\ sent_id = EmptyStr
    /\ sentence_counter = 0
    /\ yielded = <<>>
    /\ error = NoError
    /\ graphs = <<>>
    /\ nx_version \in {1, 2}
    /\ edgeless \in BOOLEAN
    /\ pc = "serializing"
    /\ w_g = 0
    /\ w_n = 0
    /\ w_a = 0
    /\ sentence = <<>>
    /\ sentences = <<>>
    /\ \/ \E s \in Sentences :
            /\ source = From("gen_graphs", s)
            /\ w_graphs = <<BuildGraph(s)>>
       \/ /\ edgeless = FALSE
          /\ source = From("caller", <<>>)
          /\ \E type \in {"int", "str"}, order \in NodeOrders, heads \in HeadChoices,
                attrs \in {"full", "no FORM", "no FEATS"}, attributes \in Attributes :
                w_graphs = <<HandBuilt(type, order, heads, attrs, attributes)>>

SkipRootStep == SkipRoot /\ WriteFrame
AppendNodeStep == AppendNode /\ WriteFrame
NodeFailsStep == NodeFails /\ WriteFrame
NodesDoneStep == NodesDone /\ WriteFrame
SpliceStep == Splice /\ WriteFrame
SpliceFailsStep == SpliceFails /\ WriteFrame
GraphDoneStep == GraphDone /\ WriteFrame
GraphsDoneStep == GraphsDone /\ WriteFrame

NextWrite ==
    \/ SkipRootStep \/ AppendNodeStep \/ NodeFailsStep \/ NodesDoneStep
    \/ SpliceStep \/ SpliceFailsStep \/ GraphDoneStep \/ GraphsDoneStep
    \/ FileOpen \/ FileSentence \/ FileSentenceFails \/ FileClose

SpecWrite == InitWrite /\ [][NextWrite]_vars

-----------------------------------------------------------------------------
(* Claims about the formatter, under SpecText *)

WordOf(row) == _read_word(Split(Strip(row), "\t")).value

\* C3: parsing the text that write_sentences produces for the sentences that
\* gen_sentences yielded on a conformant file never fails and yields the same
\* sequence of sentences, record for record and field for field.
C3_TextRoundTrip ==
    source.origin = "gen_sentences" =>
        /\ pc # "failed"
        /\ pc = "done" => YieldedSentences = source.value

\* C3's case: a row with a zero-padded ID, unsorted FEATS and a signed HEAD,
\* and a multiword row, are written in canonical form and read back equal
C3_Witness ==
    /\ pc = "done"
    /\ source.origin = "gen_sentences"
    /\ source.value = <<<<WordOf(ZeroPaddedRow), WordOf(MultiwordRow)>>>>
    /\ file = << Row(<<<<"1">>, <<"a">>, <<"a">>, <<"N">>, U,
                       <<"a", "=", "b", "|", "b", "=", "a", ",", "c">>,
                       <<"1">>, <<"r">>, U, U>>),
                 MultiwordRow, <<>> >>
    /\ YieldedSentences = source.value

-----------------------------------------------------------------------------
(* Claims about the graph builder, under SpecGraph *)

\* the positions of the records of s that have an integer ID
Tokens(s) == {i \in 1..Len(s) : IsInt(s[i].ID)}
\* the integer ids of s are the distinct values 1..n, its heads lie in 0..n
Numbered(s) ==
    LET n == Cardinality(Tokens(s))
    IN  /\ {s[i].ID.v : i \in Tokens(s)} = 1..n
        /\ \A i \in Tokens(s) : IsInt(s[i].HEAD) /\ s[i].HEAD.v \in 0..n
NodeKey(n) == PyStr(NatToStr(n))
Range(f) == {f[i] : i \in 1..Len(f)}

\* C8: for a sentence whose integer ids are the distinct values 1..n and whose
\* heads lie in 0..n, the graph built with edges enabled has exactly the nodes
\* "0".."n", one edge into each node but the root (from the head, labelled
\* with the deprel), none into the root; multiword records are no nodes.
C8_TreeInvariant ==
    ~edgeless =>
        \A k \in 1..Len(graphs) :
            LET s == yielded[k].sent
                g == graphs[k].graph
                n == Cardinality(Tokens(s))
            IN  Numbered(s) =>
                    /\ Len(g.nodes) = n + 1
                    /\ {g.nodes[i].key : i \in 1..Len(g.nodes)} = {NodeKey(j) : j \in 0..n}
                    /\ Len(g.edges) = n
                    /\ Range(g.edges) =
                         {[u |-> NodeKey(s[i].HEAD.v), v |-> NodeKey(s[i].ID.v),
                           data |-> [label |-> s[i].DEPREL]] : i \in Tokens(s)}
                    /\ \A e \in Range(g.edges) : e.v # NodeKey(0)

\* C8's case: token 1 depends on token 2, which depends on the root
C8_Witness ==
    /\ ~edgeless
    /\ pc = "done"
    /\ file = <<DepRow(<<"1">>, <<"2">>, <<"d">>), DepRow(<<"2">>, <<"0">>, <<"r">>), <<>>>>
    /\ Len(graphs) = 1
    /\ graphs[1].graph.edges =
         << [u |-> NodeKey(2), v |-> NodeKey(1), data |-> [label |-> <<"d">>]],
            [u |-> NodeKey(0), v |-> NodeKey(2), data |-> [label |-> <<"r">>]] >>

\* C8's other case: a multiword row is kept as a graph attribute, not a node
C8_WitnessMultiword ==
    /\ ~edgeless
    /\ file = <<MultiwordRow, DepRow(<<"1">>, <<"0">>, <<"r">>), <<>>>>
    /\ Len(graphs) = 1
    /\ Len(graphs[1].graph.nodes) = 2
    /\ graphs[1].graph.graph = <<[key |-> <<"1", "-", "2">>,
                                  value |-> PyStr(<<"1", "-", "2">>)]>>

-----------------------------------------------------------------------------
(* Claims about the serializer, under SpecWrite. They are stated for         *)
(* networkx 1.x, where in_edges() returns a list: under 2.x and later the    *)
(* subscript raises TypeError for every node that is not skipped.            *)

TheGraph == w_graphs[1]
Finished == pc \in {"written", "failed"}
IsRoot(key) == key \in {PyInt(0), PyStr(<<"0">>)}
NonRootNodes(g) == {i \in 1..Len(g.nodes) : ~IsRoot(g.nodes[i].key)}
InDegree(g, key) == Len(InEdges(g, key))

\* a graph of the kind write_graphs reads: integer keys, every attribute set
Serializable(g) ==
    /\ \A i \in 1..Len(g.nodes) : IsInt(g.nodes[i].key)
    /\ \A i \in NonRootNodes(g) :
           {"FORM", "LEMMA", "UPOSTAG", "FEATS"} \subseteq DOMAIN g.nodes[i].data
\* the required shape: one edge into every node but the root
TreeShaped(g) == \A i \in NonRootNodes(g) : InDegree(g, g.nodes[i].key) = 1

\* the id of a written record as a number, or -1 when it is no number
IdNumber(w) ==
    IF IsInt(w.ID) THEN w.ID.v
    ELSE IF IsDigitStr(w.ID.v) THEN DigitsValue(w.ID.v, 0) ELSE 0 - 1
HeadNumber(w) ==
    IF IsInt(w.HEAD) THEN w.HEAD.v
    ELSE IF IsDigitStr(w.HEAD.v) THEN DigitsValue(w.HEAD.v, 0) ELSE 0 - 1
\* the fields of a token that a round trip through the graph is to keep
TokenFields(w) ==
    <<IdNumber(w), w.FORM, w.LEMMA_, w.UPOSTAG, HeadNumber(w), w.DEPREL>>
TokensOf(s) ==
    LET t == SelectSeq(s, LAMBDA w : IsWord(w) /\ IdNumber(w) >= 0)
    IN  [i \in 1..Len(t) |-> TokenFields(t[i])]

\* C2: for a sentence S whose tokens each have one head, write_graphs on the
\* graph gen_graphs built for S succeeds and yields a sentence with the same
\* tokens: same ids, form, lemma, upos, head and deprel.
C2_GraphRoundTrip ==
    ( /\ nx_version = 1
      /\ source.origin = "gen_graphs"
      /\ ~edgeless
      /\ Numbered(source.value)
      /\ Finished )
    => /\ pc = "written"
       /\ Len(sentences) = 1
       /\ TokensOf(sentences[1]) = TokensOf(source.value)

\* C4: write_graphs fails with ConlluError, and with no other error, for any
\* graph in which a node other than the root has no incoming edge or has two.
C4_ShapeValidation ==
    ( /\ nx_version = 1
      /\ source.origin = "caller"
      /\ Serializable(TheGraph)
      /\ \E i \in NonRootNodes(TheGraph) :
             InDegree(TheGraph, TheGraph.nodes[i].key) \in {0, 2}
      /\ Finished )
    => /\ pc = "failed"
       /\ error.type = "ConlluError"

\* C6: for a multiword row stored on the graph, write_graphs puts the row
\* directly before the record of the token that its leading integer names:
\* the written sentence holds the row "1-2" directly followed by token 1.
C6_MultiwordSplice ==
    ( /\ nx_version = 1
      /\ source.origin = "gen_graphs"
      /\ ~edgeless
      /\ Numbered(source.value)
      /\ \E i \in 1..(Len(source.value) - 1) :
             /\ source.value[i].ID = PyStr(Span12)
             /\ source.value[i + 1].ID = PyInt(1)
      /\ Finished )
    => /\ pc = "written"
       /\ \E j \in 1..(Len(sentences[1]) - 1) :
              /\ IsWord(sentences[1][j])
              /\ sentences[1][j].ID = PyStr(Span12)
              /\ IsWord(sentences[1][j + 1])
              /\ IdNumber(sentences[1][j + 1]) = 1

\* C9: for a graph of the required shape, write_graphs emits one record per
\* node other than the root, in ascending order of id, whatever the order in
\* which the nodes were added, and no record for the root.
C9_AscendingOrder ==
    ( /\ nx_version = 1
      /\ source.origin = "caller"
      /\ Serializable(TheGraph)
      /\ TreeShaped(TheGraph)
      /\ TheGraph.graph = <<>>
      /\ pc = "written" )
    => /\ Len(sentences[1]) = Cardinality(NonRootNodes(TheGraph))
       /\ \A i \in 1..Len(sentences[1]) : IdNumber(sentences[1][i]) # 0
       /\ \A i, j \in 1..Len(sentences[1]) :
              i < j => IdNumber(sentences[1][i]) < IdNumber(sentences[1][j])

====
